---- MODULE Spec2Model ----
(***************************************************************************)
(* Model of numbapro/cudadrv/autotune.py: the warp occupancy calculator,   *)
(* the AutoTuner built on it, and the ptxas compile-info parser.           *)
(*                                                                         *)
(* The module is Python 2 with "from __future__ import division": "/" is   *)
(* true division.  A quotient is kept here as the pair (p, q) of its       *)
(* operands, and an occupancy as the rational <<num, den>>, so no value is *)
(* rounded that the code does not round.                                   *)
(***************************************************************************)
EXTENDS Integers, Sequences, FiniteSets, TLC

VARIABLES
    \* the calculator called on its own
    args,         \* [cc, tpb, smem]: the arguments held fixed over the calls
    frame,        \* the locals and outcome of the last compute_warp_occupancy
    prev,         \* the frame of the call before it
    \* one AutoTuner instance and its caller
    pc,           \* "new", "ready" (constructed), "called", "raised" (__init__ raised)
    self,         \* the instance: [cc, table, by_occupancy]
    info,         \* the resource dict the instance was built from
    call,         \* the last method call: [op, arg, outcome, value]
    \* the compile-info parser
    text,         \* the lines readline has handed out so far
    ln,           \* the current line
    gpc,          \* position in gen_parse_compile_info
    fname,        \* name of the block being parsed
    resources,    \* resource dict of the block being parsed
    pending,      \* TRUE when StopIteration is in flight through the finally
    yielded,      \* the pairs the generator has yielded, in order
    mapping       \* the dict parse_compile_info builds from them

calcVars == <<args, frame, prev>>
tunerVars == <<pc, self, info, call>>
parseVars == <<text, ln, gpc, fname, resources, pending, yielded, mapping>>
vars == <<args, frame, prev, pc, self, info, call,
          text, ln, gpc, fname, resources, pending, yielded, mapping>>

None == "None"

Min2(a, b) == IF a <= b THEN a ELSE b

(***************************************************************************)
(* Physical limits                                                         *)
(***************************************************************************)
LIMITS_CC_20 ==
    [thread_per_warp |-> 32, warp_per_sm |-> 48, thread_per_sm |-> 1536,
     block_per_sm |-> 8, registers |-> 32768, reg_alloc_unit |-> 64,
     reg_alloc_gran |-> "warp", reg_per_thread |-> 63, smem_per_sm |-> 49152,
     smem_alloc_unit |-> 128, warp_alloc_gran |-> 2, max_block_size |-> 1024]

LIMITS_CC_21 == LIMITS_CC_20

LIMITS_CC_30 ==
    [thread_per_warp |-> 32, warp_per_sm |-> 64, thread_per_sm |-> 2048,
     block_per_sm |-> 16, registers |-> 65535, reg_alloc_unit |-> 256,
     reg_alloc_gran |-> "warp", reg_per_thread |-> 63, smem_per_sm |-> 49152,
     smem_alloc_unit |-> 256, warp_alloc_gran |-> 4, max_block_size |-> 1024]

LIMITS_CC_35 == [LIMITS_CC_30 EXCEPT !.reg_per_thread = 255]

\* the keys of PHYSICAL_LIMITS
Capabilities == {<<2, 0>>, <<2, 1>>, <<3, 0>>, <<3, 5>>}

PHYSICAL_LIMITS(cc) ==
    CASE cc = <<2, 0>> -> LIMITS_CC_20
      [] cc = <<2, 1>> -> LIMITS_CC_21
      [] cc = <<3, 0>> -> LIMITS_CC_30
      [] cc = <<3, 5>> -> LIMITS_CC_35

\* smem_config=48 * 2**10, the default of warp_occupancy
DefaultSmemConfig == 48 * 1024

(***************************************************************************)
(* ceil(p / q, s) and floor(p / q, s) of the code, p / q a true division   *)
(* with q > 0 and s > 0: s * math.ceil((p / q) / s), s * math.floor(...).  *)
(* A plain integer argument x is the quotient x / 1.                       *)
(***************************************************************************)
ceil(p, q, s) == s * ((p + q * s - 1) \div (q * s))

floor(p, q, s) == s * (p \div (q * s))

(***************************************************************************)
(* compute_warp_occupancy, local by local                                  *)
(***************************************************************************)
my_warp_per_block(tpb, limits) == ceil(tpb, limits.thread_per_warp, 1)

my_smem_per_block(smem, limits) == ceil(smem, 1, limits.smem_alloc_unit)

limit_total_smem(smem_config, limits) == Min2(limits.smem_per_sm, smem_config)

limit_blocks_due_to_warps(tpb, limits) ==
    Min2(limits.block_per_sm,
         floor(limits.warp_per_sm, my_warp_per_block(tpb, limits), 1))

\* the divisor of c39: ceil(my_reg_count * limit_thread_per_warp, reg_alloc_unit)
reg_per_warp(reg, limits) ==
    ceil(reg * limits.thread_per_warp, 1, limits.reg_alloc_unit)

\* c39, evaluated before the register count is tested; a zero divisor
\* raises ZeroDivisionError there
c39_raises(reg, limits) == reg_per_warp(reg, limits) = 0

c39(reg, limits) ==
    floor(limits.registers, reg_per_warp(reg, limits), limits.warp_alloc_gran)

\* variant: the two constant branches of the conditional exchanged
limit_blocks_due_to_regs_swapped(tpb, reg, limits) ==
    IF reg > limits.reg_per_thread
    THEN limits.block_per_sm
    ELSE IF reg > 0
         THEN floor(c39(reg, limits), my_warp_per_block(tpb, limits), 1)
         ELSE 0

limit_blocks_due_to_regs(tpb, reg, limits) ==
    IF reg > limits.reg_per_thread
    THEN 0
    ELSE IF reg > 0
         THEN floor(c39(reg, limits), my_warp_per_block(tpb, limits), 1)
         ELSE limits.block_per_sm

limit_blocks_due_to_smem(smem, smem_config, limits) ==
    IF my_smem_per_block(smem, limits) > 0
    THEN floor(limit_total_smem(smem_config, limits),
               my_smem_per_block(smem, limits), 1)
    ELSE limits.block_per_sm

active_block_per_sm(tpb, reg, smem, smem_config, limits) ==
    Min2(limit_blocks_due_to_smem(smem, smem_config, limits),
         Min2(limit_blocks_due_to_warps(tpb, limits),
              limit_blocks_due_to_regs(tpb, reg, limits)))

\* variant: the register limit tested before the warp limit
factor_regs_first(tpb, reg, smem, smem_config, limits) ==
    LET active == active_block_per_sm(tpb, reg, smem, smem_config, limits)
    IN  IF active = limit_blocks_due_to_regs(tpb, reg, limits) THEN "regs"
        ELSE IF active = limit_blocks_due_to_warps(tpb, limits) THEN "warps"
        ELSE "smem"

factor(tpb, reg, smem, smem_config, limits) ==
    LET active == active_block_per_sm(tpb, reg, smem, smem_config, limits)
    IN  IF active = limit_blocks_due_to_warps(tpb, limits) THEN "warps"
        ELSE IF active = limit_blocks_due_to_regs(tpb, reg, limits) THEN "regs"
        ELSE "smem"

active_warps_per_sm(tpb, reg, smem, smem_config, limits) ==
    active_block_per_sm(tpb, reg, smem, smem_config, limits)
        * my_warp_per_block(tpb, limits)

\* occupancy = active_warps_per_sm / limit_warp_per_sm, as a rational
occupancy(tpb, reg, smem, smem_config, limits) ==
    <<active_warps_per_sm(tpb, reg, smem, smem_config, limits), limits.warp_per_sm>>

(***************************************************************************)
(* The call as a whole: the exception it raises, or its locals and the     *)
(* tuple it returns.                                                       *)
(***************************************************************************)
compute_warp_occupancy(tpb, reg, smem, smem_config, limits) ==
    IF c39_raises(reg, limits)
    THEN [raised |-> "ZeroDivisionError", tpb |-> tpb, reg |-> reg, smem |-> smem]
    ELSE [raised |-> None, tpb |-> tpb, reg |-> reg, smem |-> smem,
          my_warp_per_block |-> my_warp_per_block(tpb, limits),
          limit_blocks_due_to_warps |-> limit_blocks_due_to_warps(tpb, limits),
          limit_blocks_due_to_regs |-> limit_blocks_due_to_regs(tpb, reg, limits),
          limit_blocks_due_to_smem |->
              limit_blocks_due_to_smem(smem, smem_config, limits),
          active_block_per_sm |->
              active_block_per_sm(tpb, reg, smem, smem_config, limits),
          result |-> <<occupancy(tpb, reg, smem, smem_config, limits),
                       factor(tpb, reg, smem, smem_config, limits)>>]

(***************************************************************************)
(* The calculator called on its own: the block size, the shared memory     *)
(* and the capability are drawn once, the register count at every call.    *)
(***************************************************************************)
\* range(warpsize, max_thread, warpsize) of warp_occupancy
TpbRange(limits) ==
    {t \in limits.thread_per_warp .. limits.max_block_size - 1 :
        t % limits.thread_per_warp = 0}

RegValues == {0, 1, 20, 32, 63, 64, 255, 256}

SmemValues == {0, 2048, 16384, 49153}

NoFrame == [raised |-> "nocall"]

CalcIdle == args = None /\ frame = NoFrame /\ prev = NoFrame

CalcInit ==
    /\ args \in {a \in [cc : Capabilities, tpb : TpbRange(LIMITS_CC_20),
                        smem : SmemValues] :
                    a.tpb \in TpbRange(PHYSICAL_LIMITS(a.cc))}
    /\ frame = NoFrame
    /\ prev = NoFrame

Compute(reg) ==
    /\ prev' = frame
    /\ frame' = compute_warp_occupancy(args.tpb, reg, args.smem,
                                       DefaultSmemConfig, PHYSICAL_LIMITS(args.cc))
    /\ UNCHANGED <<args, tunerVars, parseVars>>

(***************************************************************************)
(* AutoTuner                                                               *)
(***************************************************************************)
\* int.__cmp__
int_cmp(a, b) == IF a < b THEN -1 ELSE IF a > b THEN 1 ELSE 0

\* < on two occupancies
occ_lt(a, b) == a[1] * b[2] < b[1] * a[2]

\* variant: the tie on occupancy not negated
cmp_occupancy_same_sign(a, b) ==
    IF occ_lt(a[1], b[1]) THEN -1
    ELSE IF occ_lt(b[1], a[1]) THEN 1
    ELSE int_cmp(a[2], b[2])

\* _cmp_occupancy on (occupancy, tpb) pairs
cmp_occupancy(a, b) ==
    IF occ_lt(a[1], b[1]) THEN -1
    ELSE IF occ_lt(b[1], a[1]) THEN 1
    ELSE -1 * int_cmp(a[2], b[2])

\* sorted(seq, cmp=_cmp_occupancy): a stable sort, by insertion from the right
RECURSIVE insort(_, _)
insort(s, x) ==
    IF s = <<>> THEN <<x>>
    ELSE IF cmp_occupancy(x, s[Len(s)]) < 0
         THEN Append(insort(SubSeq(s, 1, Len(s) - 1), x), s[Len(s)])
         ELSE Append(s, x)

RECURSIVE sorted(_)
sorted(seq) ==
    IF seq = <<>> THEN <<>>
    ELSE insort(sorted(SubSeq(seq, 1, Len(seq) - 1)), seq[Len(seq)])

reversed(seq) == [i \in 1 .. Len(seq) |-> seq[Len(seq) + 1 - i]]

\* dict.get(key, default)
dict_get(d, key, default) == IF key \in DOMAIN d THEN d[key] ELSE default

\* truth value of a tuple: false only when it is empty
truthy(result) == Len(result) > 0

warp_occupancy_call(inf, cc, tpb) ==
    compute_warp_occupancy(tpb, dict_get(inf, "reg", 0), dict_get(inf, "shared", 0),
                           DefaultSmemConfig, PHYSICAL_LIMITS(cc))

\* the first exception of the sweep, None when it runs to its end
warp_occupancy_raised(inf, cc) ==
    IF \E t \in TpbRange(PHYSICAL_LIMITS(cc)) :
           warp_occupancy_call(inf, cc, t).raised # None
    THEN "ZeroDivisionError"
    ELSE None

\* the dictionary warp_occupancy returns
warp_occupancy(inf, cc) ==
    LET kept == {t \in TpbRange(PHYSICAL_LIMITS(cc)) :
                    truthy(warp_occupancy_call(inf, cc, t).result)}
    IN  [t \in kept |-> warp_occupancy_call(inf, cc, t).result]

\* table.iteritems() as (occup, tpb) pairs; the order of a dict's items is
\* not specified and the sort below does not depend on it (the pairs differ)
RECURSIVE items(_)
items(table) ==
    IF DOMAIN table = {} THEN <<>>
    ELSE LET t == CHOOSE k \in DOMAIN table : \A j \in DOMAIN table : j <= k
         IN  Append(items([k \in DOMAIN table \ {t} |-> table[k]]),
                    <<table[t][1], t>>)

by_occupancy(table) == reversed(sorted(items(table)))

\* AutoTuner.__init__ after allinfo[name]: the instance, when nothing raises
AutoTuner(inf, cc) ==
    [cc |-> cc, table |-> warp_occupancy(inf, cc),
     by_occupancy |-> by_occupancy(warp_occupancy(inf, cc))]

Ret(op, arg, value) == [op |-> op, arg |-> arg, outcome |-> "return", value |-> value]

RetNone(op, arg) == [op |-> op, arg |-> arg, outcome |-> "return None", value |-> None]

Raise(op, arg, exc) == [op |-> op, arg |-> arg, outcome |-> exc, value |-> None]

max_occupancy_max_blocks(slf) ==
    IF slf.by_occupancy = <<>>
    THEN Raise("best", <<>>, "IndexError")
    ELSE Ret("best", <<>>, slf.by_occupancy[1][2])

best(slf) == max_occupancy_max_blocks(slf)

\* the key closest looks up
closest_key(slf, tpb) == ceil(tpb, 1, PHYSICAL_LIMITS(slf.cc).thread_per_warp)

closest(slf, tpb) ==
    IF closest_key(slf, tpb) \in DOMAIN slf.table
    THEN Ret("closest", tpb, slf.table[closest_key(slf, tpb)][1])
    ELSE Raise("closest", tpb, "KeyError")

\* variant: the head of the sort taken instead of its last element
prefer_first(slf, tpblist) ==
    LET occ(i) == closest(slf, tpblist[i])
        pairs == [i \in 1 .. Len(tpblist) |-> <<occ(i).value, tpblist[i]>>]
        positive(p) == p[1][1] > 0
        bin == SelectSeq(pairs, positive)
    IN  IF \E i \in 1 .. Len(tpblist) : occ(i).outcome # "return"
        THEN Raise("prefer", tpblist, "KeyError")
        ELSE IF bin # <<>>
             THEN Ret("prefer", tpblist, sorted(bin)[1][2])
             ELSE RetNone("prefer", tpblist)

\* closest raises KeyError at the first candidate whose rounded size is no
\* key of the table, and prefer with it
prefer(slf, tpblist) ==
    LET occ(i) == closest(slf, tpblist[i])
        pairs == [i \in 1 .. Len(tpblist) |-> <<occ(i).value, tpblist[i]>>]
        positive(p) == p[1][1] > 0
        bin == SelectSeq(pairs, positive)
    IN  IF \E i \in 1 .. Len(tpblist) : occ(i).outcome # "return"
        THEN Raise("prefer", tpblist, "KeyError")
        ELSE IF bin # <<>>
             THEN Ret("prefer", tpblist, sorted(bin)[Len(bin)][2])
             ELSE RetNone("prefer", tpblist)

\* range(start, stop, step) for step > 0
range(start, stop, step) ==
    LET n == IF stop > start THEN (stop - start + step - 1) \div step ELSE 0
    IN  [i \in 1 .. n |-> start + (i - 1) * step]

best_within_range(slf, mintpb, maxtpb) ==
    LET warpsize == PHYSICAL_LIMITS(slf.cc).thread_per_warp
    IN  range(ceil(mintpb, 1, warpsize), floor(maxtpb, 1, warpsize) + 1, warpsize)

best_within(slf, mintpb, maxtpb) ==
    LET r == prefer(slf, best_within_range(slf, mintpb, maxtpb))
    IN  [r EXCEPT !.op = "best_within", !.arg = <<mintpb, maxtpb>>]

MaxPrefer == 2

\* the resource dicts a parse can hand to __init__: "reg" and "shared"
\* each present or not
InfoRegs == {0, 20, 32, 63, 64, 256}

InfoShared == {0, 2048, 16384, 49153}

Infos ==
    {<<>>}
        \cup {("reg" :> r) : r \in InfoRegs}
        \cup {("shared" :> m) : m \in InfoShared}
        \cup {("reg" :> r) @@ ("shared" :> m) : r \in InfoRegs, m \in InfoShared}

\* block sizes a caller asks about
Candidates == {0, 1, 192, 250, 256, 768, 1000, 1024}

CandidateLists == UNION {[1 .. n -> Candidates] : n \in 0 .. MaxPrefer}

NoCall == [op |-> None, arg |-> None, outcome |-> None, value |-> None]

TunerIdle == pc = "idle" /\ self = None /\ info = None /\ call = NoCall

TunerInit == pc = "new" /\ self = None /\ info = None /\ call = NoCall

\* AutoTuner(name, compile_info, cc), from info = allinfo[name] on: inf is
\* the resource dict parse_compile_info holds for the kernel
New(inf, cc) ==
    /\ pc = "new"
    /\ info' = inf
    /\ IF warp_occupancy_raised(inf, cc) # None
       THEN /\ pc' = "raised"
            /\ self' = None
            /\ call' = Raise("__init__", cc, warp_occupancy_raised(inf, cc))
       ELSE /\ pc' = "ready"
            /\ self' = AutoTuner(inf, cc)
            /\ call' = NoCall
    /\ UNCHANGED <<calcVars, parseVars>>

Best ==
    /\ pc = "ready"
    /\ pc' = "called"
    /\ call' = best(self)
    /\ UNCHANGED <<self, info, calcVars, parseVars>>

Closest(tpb) ==
    /\ pc = "ready"
    /\ pc' = "called"
    /\ call' = closest(self, tpb)
    /\ UNCHANGED <<self, info, calcVars, parseVars>>

BestWithin(mintpb, maxtpb) ==
    /\ pc = "ready"
    /\ pc' = "called"
    /\ call' = best_within(self, mintpb, maxtpb)
    /\ UNCHANGED <<self, info, calcVars, parseVars>>

Prefer(tpblist) ==
    /\ pc = "ready"
    /\ pc' = "called"
    /\ call' = prefer(self, tpblist)
    /\ UNCHANGED <<self, info, calcVars, parseVars>>

\* the caller takes the result; the instance is as it was
Return ==
    /\ pc = "called"
    /\ pc' = "ready"
    /\ call' = NoCall
    /\ UNCHANGED <<self, info, calcVars, parseVars>>

(***************************************************************************)
(* Compile info parsing.  A line is what the regular expressions see of    *)
(* it: whether RE_LEAD matches at its start, the characters after that     *)
(* match, and for each comma separated section the number each resource    *)
(* expression finds in it (a dict from "reg", "stack", "shared", "local"). *)
(***************************************************************************)
MaxLines == 5

NoMatch == <<>>

LeadLine(rest) == [lead |-> TRUE, rest |-> rest, sections |-> <<NoMatch>>]

ResourceLine(sections) == [lead |-> FALSE, rest |-> <<>>, sections |-> sections]

OtherLine == [lead |-> FALSE, rest |-> <<>>, sections |-> <<NoMatch>>]

\* what a readline() does: hands out a line, or raises StopIteration
ReadLine(l) == [raised |-> None, line |-> l]

StopIteration == [raised |-> "StopIteration", line |-> OtherLine]

Lines ==
    { LeadLine(<<" ", "'", "f", "'", ":">>),     \* " 'f':"
      LeadLine(<<"g", ":">>),                    \* "g:"
      LeadLine(<<"'", "f", ":">>),               \* "'f:"
      LeadLine(<<"'", "f", "'", "x">>),          \* "'f'x"
      ResourceLine(<<("reg" :> 40), ("stack" :> 8)>>),
      ResourceLine(<<("reg" :> 20), ("shared" :> 512 @@ "local" :> 4)>>),
      OtherLine }

\* str.strip(), str.rstrip(':'), startswith / endswith one character
RECURSIVE lstrip(_, _)
lstrip(s, c) == IF s # <<>> /\ s[1] = c THEN lstrip(Tail(s), c) ELSE s

RECURSIVE rstrip(_, _)
rstrip(s, c) ==
    IF s # <<>> /\ s[Len(s)] = c THEN rstrip(SubSeq(s, 1, Len(s) - 1), c) ELSE s

strip(s) == rstrip(lstrip(s, " "), " ")

startswith(s, c) == s # <<>> /\ s[1] = c

endswith(s, c) == s # <<>> /\ s[Len(s)] = c

\* the name parse_function_name tests and slices
stripped_name(t) == rstrip(strip(t), ":")

\* the assert of parse_function_name fails
parse_function_name_raises(t) ==
    startswith(stripped_name(t), "'") /\ ~endswith(stripped_name(t), "'")

parse_function_name(t) ==
    IF startswith(stripped_name(t), "'")
    THEN SubSeq(stripped_name(t), 2, Len(stripped_name(t)) - 1)
    ELSE stripped_name(t)

\* (key, value) of the first expression of relst that matches, else None,
\* here the empty tuple: the code tests the result for truth only
parse_resources(section) ==
    IF "reg" \in DOMAIN section THEN <<"reg", section["reg"]>>
    ELSE IF "stack" \in DOMAIN section THEN <<"stack", section["stack"]>>
    ELSE IF "shared" \in DOMAIN section THEN <<"shared", section["shared"]>>
    ELSE IF "local" \in DOMAIN section THEN <<"local", section["local"]>>
    ELSE <<>>

\* resources[k] = v
dict_put(d, k, v) == (k :> v) @@ d

\* variant: the record of a repeated key merged into the one stored
dict_add_merge(d, pair) ==
    IF pair[1] \in DOMAIN d
    THEN (pair[1] :> (pair[2] @@ d[pair[1]])) @@ d
    ELSE (pair[1] :> pair[2]) @@ d

\* dict() taking one more (key, value) pair of the generator
dict_add(d, pair) == (pair[1] :> pair[2]) @@ d

\* the for loop over ln.split(','): the resource dict after the sections
RECURSIVE parse_sections(_, _)
parse_sections(res, sections) ==
    IF sections = <<>> THEN res
    ELSE LET r == parse_resources(sections[1])
         IN  parse_sections(IF truthy(r) THEN dict_put(res, r[1], r[2]) ELSE res,
                            Tail(sections))

\* the flag more after the for loop
more(sections) == \E i \in 1 .. Len(sections) : truthy(parse_resources(sections[i]))

ParseIdle ==
    /\ text = <<>> /\ ln = OtherLine /\ gpc = "idle" /\ fname = None
    /\ resources = <<>> /\ pending = FALSE /\ yielded = <<>> /\ mapping = <<>>

ParseInit ==
    /\ text = <<>> /\ ln = OtherLine /\ gpc = "start" /\ fname = None
    /\ resources = <<>> /\ pending = FALSE /\ yielded = <<>> /\ mapping = <<>>

\* the readline outcomes: the text is revealed line by line, and ends
\* where readline raises StopIteration
Reads == {ReadLine(l) : l \in Lines} \cup {StopIteration}

Readline(nxt) ==
    /\ nxt = StopIteration \/ Len(text) < MaxLines
    /\ text' = IF nxt = StopIteration THEN text ELSE Append(text, nxt.line)
    /\ ln' = IF nxt = StopIteration THEN ln ELSE nxt.line

\* lines 253-257: the first readline
Start(nxt) ==
    /\ gpc = "start"
    /\ Readline(nxt)
    /\ gpc' = IF nxt = StopIteration THEN "done" ELSE "outer"
    /\ UNCHANGED <<fname, resources, pending, yielded, mapping>>
    /\ UNCHANGED <<calcVars, tunerVars>>

\* lines 259-263: not a lead line
SkipLine(nxt) ==
    /\ gpc = "outer"
    /\ ~ln.lead
    /\ Readline(nxt)
    /\ gpc' = IF nxt = StopIteration THEN "done" ELSE "outer"
    /\ UNCHANGED <<fname, resources, pending, yielded, mapping>>
    /\ UNCHANGED <<calcVars, tunerVars>>

\* lines 264-267: a lead line whose name fails the assert
LeadRaises ==
    /\ gpc = "outer"
    /\ ln.lead
    /\ parse_function_name_raises(ln.rest)
    /\ gpc' = "AssertionError"
    /\ UNCHANGED <<text, ln, fname, resources, pending, yielded, mapping>>
    /\ UNCHANGED <<calcVars, tunerVars>>

\* lines 264-270: a lead line; its readline is outside the try of the block
LeadMatch(nxt) ==
    /\ gpc = "outer"
    /\ ln.lead
    /\ ~parse_function_name_raises(ln.rest)
    /\ fname' = parse_function_name(ln.rest)
    /\ Readline(nxt)
    /\ IF nxt = StopIteration
       THEN gpc' = "done" /\ UNCHANGED resources
       ELSE gpc' = "inner" /\ resources' = <<>>
    /\ UNCHANGED <<pending, yielded, mapping>>
    /\ UNCHANGED <<calcVars, tunerVars>>

\* lines 272-282: one turn of the inner loop; readline comes before the
\* test of more
ResourceTurn(nxt) ==
    /\ gpc = "inner"
    /\ resources' = parse_sections(resources, ln.sections)
    /\ Readline(nxt)
    /\ pending' = (nxt = StopIteration)
    /\ gpc' = IF nxt = StopIteration \/ ~more(ln.sections) THEN "finally" ELSE "inner"
    /\ UNCHANGED <<fname, yielded, mapping>>
    /\ UNCHANGED <<calcVars, tunerVars>>

\* lines 283-284 and 240: the finally yields the pair and dict() stores it;
\* then the loop goes on, or the StopIteration in flight ends the generator
Yield ==
    /\ gpc = "finally"
    /\ yielded' = Append(yielded, <<fname, resources>>)
    /\ mapping' = dict_add(mapping, <<fname, resources>>)
    /\ gpc' = IF pending THEN "done" ELSE "outer"
    /\ UNCHANGED <<text, ln, fname, resources, pending>>
    /\ UNCHANGED <<calcVars, tunerVars>>

(***************************************************************************)
(* Specifications                                                          *)
(***************************************************************************)
Init == TunerInit /\ CalcIdle /\ ParseIdle

Next ==
    \/ \E inf \in Infos, cc \in Capabilities : New(inf, cc)
    \/ Best
    \/ \E tpb \in Candidates : Closest(tpb)
    \/ \E mintpb \in Candidates, maxtpb \in Candidates : BestWithin(mintpb, maxtpb)
    \/ \E tpblist \in CandidateLists : Prefer(tpblist)
    \/ Return

Spec == Init /\ [][Next]_vars

InitCalc == CalcInit /\ TunerIdle /\ ParseIdle

NextCalc == \E reg \in RegValues : Compute(reg)

SpecCalc == InitCalc /\ [][NextCalc]_vars

InitParse == ParseInit /\ TunerIdle /\ CalcIdle

NextParse ==
    \/ \E nxt \in Reads : Start(nxt)
    \/ \E nxt \in Reads : SkipLine(nxt)
    \/ LeadRaises
    \/ \E nxt \in Reads : LeadMatch(nxt)
    \/ \E nxt \in Reads : ResourceTurn(nxt)
    \/ Yield

SpecParse == InitParse /\ [][NextParse]_vars

(***************************************************************************)
(* Properties of the calculator (SpecCalc)                                 *)
(***************************************************************************)
Called(f) == f.raised # "nocall"

Returned(f) == f.raised = None

ArgLimits == PHYSICAL_LIMITS(args.cc)

C9_ZeroRegsUnconstrained ==
    (Called(frame) /\ frame.reg = 0)
        => /\ Returned(frame)
           /\ frame.limit_blocks_due_to_regs = ArgLimits.block_per_sm

(***************************************************************************)
(* The algorithm of the specification (4.2), in integer arithmetic         *)
(***************************************************************************)
CeilDiv(a, b) == (a + b - 1) \div b

MinOf(S) == CHOOSE m \in S : \A x \in S : m <= x

RefWarpsPerBlock(tpb, L) == CeilDiv(tpb, L.thread_per_warp)

RefBlocksByWarps(tpb, L) ==
    MinOf({L.block_per_sm, L.warp_per_sm \div RefWarpsPerBlock(tpb, L)})

RefBlocksByRegs(tpb, r, L) ==
    IF r > L.reg_per_thread THEN 0
    ELSE IF r = 0 THEN L.block_per_sm
    ELSE LET per_warp_regs ==
                 L.reg_alloc_unit * CeilDiv(r * L.thread_per_warp, L.reg_alloc_unit)
             reg_budget ==
                 L.warp_alloc_gran
                     * ((L.registers \div per_warp_regs) \div L.warp_alloc_gran)
         IN  reg_budget \div RefWarpsPerBlock(tpb, L)

RefBlocksBySmem(smem, cfg, L) ==
    LET effective_smem == MinOf({L.smem_per_sm, cfg})
        per_block_smem == L.smem_alloc_unit * CeilDiv(smem, L.smem_alloc_unit)
    IN  IF per_block_smem > 0 THEN effective_smem \div per_block_smem
        ELSE L.block_per_sm

RefActiveBlocks(tpb, r, smem, cfg, L) ==
    MinOf({RefBlocksByWarps(tpb, L), RefBlocksByRegs(tpb, r, L),
           RefBlocksBySmem(smem, cfg, L)})

\* the first of warps, registers, shared memory whose limit is the minimum
RefFactor(tpb, r, smem, cfg, L) ==
    LET lim == <<RefBlocksByWarps(tpb, L), RefBlocksByRegs(tpb, r, L),
                 RefBlocksBySmem(smem, cfg, L)>>
        first == MinOf({i \in 1 .. 3 : lim[i] = RefActiveBlocks(tpb, r, smem, cfg, L)})
    IN  <<"warps", "regs", "smem">>[first]

RefActiveWarps(tpb, r, smem, cfg, L) ==
    RefActiveBlocks(tpb, r, smem, cfg, L) * RefWarpsPerBlock(tpb, L)

\* C10: for a register count >= 1 the call returns the occupancy and the
\* limiting factor of the algorithm of the specification: the minimum of the
\* three block limits, its warps over warp_per_sm, and the first of warps,
\* registers, shared memory that attains the minimum.
C10_MatchesReference ==
    (Called(frame) /\ frame.reg >= 1)
        => /\ Returned(frame)
           /\ frame.active_block_per_sm
                  = RefActiveBlocks(args.tpb, frame.reg, args.smem,
                                    DefaultSmemConfig, ArgLimits)
           /\ frame.result[1][1] * ArgLimits.warp_per_sm
                  = RefActiveWarps(args.tpb, frame.reg, args.smem,
                                   DefaultSmemConfig, ArgLimits) * frame.result[1][2]
           /\ frame.result[2]
                  = RefFactor(args.tpb, frame.reg, args.smem,
                              DefaultSmemConfig, ArgLimits)

\* a call where the warp limit and the register limit tie for the minimum
\* and shared memory does not
C10_Witness ==
    /\ Returned(frame)
    /\ frame.reg >= 1
    /\ frame.limit_blocks_due_to_warps = frame.limit_blocks_due_to_regs
    /\ frame.limit_blocks_due_to_warps < frame.limit_blocks_due_to_smem
    /\ frame.active_block_per_sm > 0
    /\ frame.result[2] = "warps"

(***************************************************************************)
(* Properties of the AutoTuner (Spec)                                      *)
(***************************************************************************)
Constructed == pc \in {"ready", "called"}

\* the occupancy the table holds for the block size tpb rounds up to
TableOcc(tpb) ==
    self.table[PHYSICAL_LIMITS(self.cc).thread_per_warp
                   * CeilDiv(tpb, PHYSICAL_LIMITS(self.cc).thread_per_warp)][1]

OccLess(a, b) == a[1] * b[2] < b[1] * a[2]

OccSame(a, b) == a[1] * b[2] = b[1] * a[2]

OccPositive(a) == a[1] > 0

\* C1: every entry of the occupancy table of a constructed AutoTuner has
\* 0 < occupancy <= 1.
C1_TableOccupancyPositive ==
    Constructed
        => \A t \in DOMAIN self.table :
               /\ OccPositive(self.table[t][1])
               /\ self.table[t][1][1] <= self.table[t][1][2]

\* C3: best() returns a key of the table; no entry has a greater occupancy,
\* and every other key with the same occupancy is larger.
C3_BestMaxOccupancySmallestTpb ==
    (pc = "called" /\ call.op = "best")
        => /\ call.outcome = "return"
           /\ call.value \in DOMAIN self.table
           /\ \A t \in DOMAIN self.table :
                  /\ ~OccLess(self.table[call.value][1], self.table[t][1])
                  /\ (OccSame(self.table[call.value][1], self.table[t][1])
                          /\ t # call.value) => t > call.value

\* best() has returned from a table where its occupancy is shared by another
\* key and is positive, and where some entry has a smaller occupancy
C3_Witness ==
    /\ pc = "called" /\ call.op = "best" /\ call.outcome = "return"
    /\ OccPositive(self.table[call.value][1])
    /\ \E t \in DOMAIN self.table :
           t # call.value /\ OccSame(self.table[call.value][1], self.table[t][1])
    /\ \E t \in DOMAIN self.table :
           OccLess(self.table[t][1], self.table[call.value][1])

PreferReturned == pc = "called" /\ call.op = "prefer" /\ call.outcome = "return"

PreferArgs == {call.arg[i] : i \in 1 .. Len(call.arg)}

\* the candidates of the call whose table occupancy is not zero
PreferLive == {c \in PreferArgs : OccPositive(TableOcc(c))}

\* C2 as stated: prefer returns a candidate of maximum occupancy among those
\* of non-zero occupancy, and the largest block size among the candidates
\* that share that occupancy.
C2_PreferLargestOnTies ==
    PreferReturned
        => /\ call.value \in PreferLive
           /\ \A c \in PreferLive :
                  /\ ~OccLess(TableOcc(call.value), TableOcc(c))
                  /\ OccSame(TableOcc(call.value), TableOcc(c)) => c <= call.value

\* C2 amended: prefer returns a candidate of maximum occupancy among those
\* of non-zero occupancy, and the smallest block size among the candidates
\* that share that occupancy, as best() does.
C2_PreferSmallestOnTies ==
    PreferReturned
        => /\ call.value \in PreferLive
           /\ \A c \in PreferLive :
                  /\ ~OccLess(TableOcc(call.value), TableOcc(c))
                  /\ OccSame(TableOcc(call.value), TableOcc(c)) => call.value <= c

\* prefer has returned the smaller of two candidates of the same, maximum,
\* occupancy that round to different table keys
C2_Witness ==
    /\ PreferReturned
    /\ \E c \in PreferLive :
           /\ c > call.value
           /\ OccSame(TableOcc(call.value), TableOcc(c))
           /\ CeilDiv(c, PHYSICAL_LIMITS(self.cc).thread_per_warp)
                  # CeilDiv(call.value, PHYSICAL_LIMITS(self.cc).thread_per_warp)

\* C5: prefer and best_within do not raise when a candidate's rounded block
\* size is not a key of the table; they return a block size or None.
C5_AbsentKeyDiscarded ==
    (pc = "called" /\ call.op \in {"prefer", "best_within"})
        => call.outcome \in {"return", "return None"}

(***************************************************************************)
(* Properties of the parser (SpecParse)                                    *)
(***************************************************************************)
\* C6: the parser raises no error, whatever the text.
C6_ParserNeverRaises == gpc # "AssertionError"

YieldedNames == {yielded[i][1] : i \in 1 .. Len(yielded)}

LastYield(name) ==
    CHOOSE i \in 1 .. Len(yielded) :
        /\ yielded[i][1] = name
        /\ \A j \in i + 1 .. Len(yielded) : yielded[j][1] # name

\* C7: when the parse returns, the mapping has exactly the names yielded,
\* each with the resource record of the last pair yielded for it.
C7_LastWriteWins ==
    gpc = "done"
        => /\ DOMAIN mapping = YieldedNames
           /\ \A name \in YieldedNames : mapping[name] = yielded[LastYield(name)][2]

\* the parse has returned after yielding a name twice, the earlier record
\* holding a key the later one lacks
C7_Witness ==
    /\ gpc = "done"
    /\ \E i \in 1 .. Len(yielded) :
           /\ i < LastYield(yielded[i][1])
           /\ DOMAIN yielded[i][2] \ DOMAIN yielded[LastYield(yielded[i][1])][2] # {}
           /\ DOMAIN yielded[LastYield(yielded[i][1])][2] # {}

IsLead(l) == l.lead

\* C8: when the generator ends it has yielded one pair per lead line of the
\* text, in text order.
C8_OnePairPerLeadLine ==
    gpc = "done"
        => /\ Len(yielded) = Len(SelectSeq(text, IsLead))
           /\ \A i \in 1 .. Len(yielded) :
                  yielded[i][1] = parse_function_name(SelectSeq(text, IsLead)[i].rest)

====
